---- MODULE Spec2Model ----
(***************************************************************************)
(* KomePa catalog page: the GET / handler of src/src/index.ts, its two     *)
(* reads of the products table (src/schema/schema.sql) and the two         *)
(* renderers, renderProductList and renderError.                           *)
(*                                                                         *)
(* JavaScript numbers are records: Num(n) for an integer, NaN and Infinity *)
(* for the two non-integers the handler's arithmetic can produce.  A       *)
(* string is a tuple of one-character strings, an optional value is <<>>   *)
(* (absent / NULL) or <<v>>.                                               *)
(***************************************************************************)
EXTENDS Integers, Sequences, FiniteSets, TLC

\* ------------------------------------------------------------------ bounds
MaxVaried == 1      \* rows of the table whose price/updated_at are enumerated
MaxFill   == 6      \* further rows, all alike, that only add to the count
MaxPage   == 7      \* largest page number a request asks for
MaxLimit  == 2      \* largest explicit limit a request asks for

\* ------------------------------------------------------- JavaScript numbers
Num(n)   == [kind |-> "num", v |-> n]
NaN      == [kind |-> "nan", v |-> 0]
Infinity == [kind |-> "inf", v |-> 0]

IsNum(x) == x.kind = "num"

\* a + b, a - b for an integer b (Infinity +/- n = Infinity, NaN +/- n = NaN)
JsAdd(a, n) == IF IsNum(a) THEN Num(a.v + n) ELSE a
JsSub(a, n) == IF IsNum(a) THEN Num(a.v - n) ELSE a

\* a * b for operands that are integers or NaN (results of parseInt)
JsMul(a, b) == IF IsNum(a) /\ IsNum(b) THEN Num(a.v * b.v) ELSE NaN

\* a < b, a <= b, a > b, a >= b: false as soon as one side is NaN
JsLt(a, b) ==
    CASE a.kind = "nan" \/ b.kind = "nan" -> FALSE
      [] a.kind = "inf"                   -> FALSE
      [] b.kind = "inf"                   -> TRUE
      [] OTHER                            -> a.v < b.v
JsLe(a, b) ==
    CASE a.kind = "nan" \/ b.kind = "nan" -> FALSE
      [] b.kind = "inf"                   -> TRUE
      [] a.kind = "inf"                   -> FALSE
      [] OTHER                            -> a.v <= b.v
JsGt(a, b) == JsLt(b, a)
JsGe(a, b) == JsLe(b, a)

\* a === b on numbers: NaN is not equal to itself
JsStrictEq(a, b) == a.kind # "nan" /\ b.kind # "nan" /\ a = b

\* Math.min(a, b): NaN if either is NaN
JsMin(a, b) ==
    CASE a.kind = "nan" \/ b.kind = "nan" -> NaN
      [] JsLe(a, b)                       -> a
      [] OTHER                            -> b

\* Math.ceil(t / l) for an integer t >= 0
JsCeilDiv(t, l) ==
    CASE l.kind = "nan" -> NaN
      [] l.kind = "inf" -> Num(0)
      [] l.v = 0        -> IF t = 0 THEN NaN ELSE Infinity
      [] l.v > 0        -> Num((t + l.v - 1) \div l.v)
      [] OTHER          -> Num(0 - (t \div (0 - l.v)))

\* ------------------------------------------------------------------ strings
DigitChars == {"0", "1", "2", "3", "4", "5", "6", "7", "8", "9"}
DigitVal ==
    "0" :> 0 @@ "1" :> 1 @@ "2" :> 2 @@ "3" :> 3 @@ "4" :> 4 @@
    "5" :> 5 @@ "6" :> 6 @@ "7" :> 7 @@ "8" :> 8 @@ "9" :> 9

\* the decimal digits of n >= 0, as the client writes them in the URL
RECURSIVE Decimal(_)
Decimal(n) ==
    LET d == CHOOSE c \in DigitChars : DigitVal[c] = n % 10
    IN  IF n < 10 THEN <<d>> ELSE Append(Decimal(n \div 10), d)

\* value of the longest run of digits of s starting at position i,
\* acc is the value read so far
RECURSIVE DigitRun(_, _, _)
DigitRun(s, i, acc) ==
    IF i <= Len(s) /\ s[i] \in DigitChars
    THEN DigitRun(s, i + 1, acc * 10 + DigitVal[s[i]])
    ELSE acc

\* parseInt(s): leading blanks skipped, an optional sign, then the longest
\* run of digits; NaN when there is no digit there
RECURSIVE parseInt(_)
parseInt(s) ==
    CASE s = <<>>            -> NaN
      [] s[1] = " "          -> parseInt(Tail(s))
      [] s[1] \in {"-", "+"} ->
            IF Len(s) >= 2 /\ s[2] \in DigitChars
            THEN Num((IF s[1] = "-" THEN -1 ELSE 1) * DigitRun(s, 2, 0))
            ELSE NaN
      [] s[1] \in DigitChars -> Num(DigitRun(s, 1, 0))
      [] OTHER               -> NaN

\* ------------------------------------------------------- the products table
NULL == <<>>

\* the rows whose columns are enumerated: price is NULL, 1 or 3,
\* updated_at is 1 or 3
RowKinds ==
    { [price |-> NULL,  updated_at |-> 3],
      [price |-> <<1>>, updated_at |-> 3],
      [price |-> <<3>>, updated_at |-> 1],
      [price |-> <<1>>, updated_at |-> 1] }

FillRow == [price |-> <<2>>, updated_at |-> 2]

\* tables: up to MaxVaried enumerated rows followed by up to MaxFill equal
\* rows; the position of a row in the sequence is its rowid
RECURSIVE SeqsUpTo(_, _)
SeqsUpTo(S, n) ==
    IF n = 0 THEN {<<>>}
    ELSE LET shorter == SeqsUpTo(S, n - 1)
         IN  shorter \cup {Append(q, x) : q \in {r \in shorter : Len(r) = n - 1}, x \in S}

WithIds(cols) ==
    [i \in 1..Len(cols) |->
        [id |-> i, price |-> cols[i].price, updated_at |-> cols[i].updated_at]]

Tables ==
    { WithIds(head \o [i \in 1..f |-> FillRow]) :
        head \in SeqsUpTo(RowKinds, MaxVaried), f \in 0..MaxFill }

\* SELECT COUNT(*) as total FROM products: the one row first() returns
CountRow(rows) == <<Len(rows)>>

\* p sorts before q in ascending order; NULL sorts before every value
NullsFirstLess(p, q) ==
    IF p = NULL THEN q # NULL ELSE q # NULL /\ p[1] < q[1]

\* a comes strictly before b under ORDER BY orderBy
Precedes(a, b, orderBy) ==
    CASE orderBy = "price ASC"       -> NullsFirstLess(a.price, b.price)
      [] orderBy = "price DESC"      -> NullsFirstLess(b.price, a.price)
      [] orderBy = "updated_at DESC" -> b.updated_at < a.updated_at

\* SELECT * FROM products ORDER BY orderBy; rows equal under the ordering
\* keep their rowid order
OrderRows(rows, orderBy) ==
    LET n == Len(rows)
        Before(j, i) ==
            \/ Precedes(rows[j], rows[i], orderBy)
            \/ ~Precedes(rows[i], rows[j], orderBy) /\ j < i
        Rank(i) == 1 + Cardinality({j \in 1..n : Before(j, i)})
    IN  [k \in 1..n |-> rows[CHOOSE i \in 1..n : Rank(i) = k]]

\* ... LIMIT lim OFFSET off on integers: a negative OFFSET counts as 0 and a
\* negative LIMIT puts no upper bound on the number of rows
LimitOffset(sorted, lim, off) ==
    LET n     == Len(sorted)
        first == (IF off < 0 THEN 0 ELSE off) + 1
        last  == IF lim < 0 \/ first - 1 + lim > n THEN n ELSE first - 1 + lim
    IN  IF first > last THEN <<>> ELSE [k \in 1..(last - first + 1) |-> sorted[first + k - 1]]

\* a bound number as the statement receives it, when the store accepts a
\* value that is not an integer instead of rejecting it
Coerce(x) == IF IsNum(x) THEN x.v ELSE 0

\* SELECT * FROM products ORDER BY orderBy LIMIT ? OFFSET ? bound to
\* (limitNum, offset)
FetchSlice(rows, orderBy, limitNum, offset) ==
    LimitOffset(OrderRows(rows, orderBy), Coerce(limitNum), Coerce(offset))

\* ------------------------------------------------------------- the handler
\* the value of a query parameter, or its default when the URL has none
OrDefault(param, dflt) == IF param = <<>> THEN dflt ELSE param[1]

DefaultSort  == "price_asc"
DefaultPage  == <<"1">>
DefaultLimit == <<"2", "0">>

\* a slip of the offset: page numbers taken as counted from 0
Offset_fromZero(pageNum, limitNum) == JsMul(pageNum, limitNum)

\* offset = (pageNum - 1) * limitNum
Offset(pageNum, limitNum) == JsMul(JsSub(pageNum, 1), limitNum)

\* a slip of the switch: the default falls into the wrong ordering
ResolveOrderBy_defaultDesc(sort) ==
    CASE sort = "price_desc"   -> "price DESC"
      [] sort = "updated_desc" -> "updated_at DESC"
      [] sort = "price_asc"    -> "price ASC"
      [] OTHER                 -> "price DESC"

\* the switch on sort
ResolveOrderBy(sort) ==
    CASE sort = "price_desc"   -> "price DESC"
      [] sort = "updated_desc" -> "updated_at DESC"
      [] OTHER                 -> "price ASC"

\* countResult?.total || 0
TotalProductsOf(countResult) ==
    IF countResult = <<>> \/ countResult[1] = 0 THEN 0 ELSE countResult[1]

\* a slip of the page count: rounded down
TotalPagesOf_floor(totalProducts, limitNum) ==
    IF IsNum(limitNum) /\ limitNum.v > 0
    THEN Num(totalProducts \div limitNum.v)
    ELSE JsCeilDiv(totalProducts, limitNum)

\* Math.ceil(totalProducts / limitNum)
TotalPagesOf(totalProducts, limitNum) == JsCeilDiv(totalProducts, limitNum)

\* a slip of the store call: the statement is sent again
StoreCall_retry(issued, op) == issued \o <<op, op>>

\* one more statement sent to the database
StoreCall(issued, op) == Append(issued, op)

\* ------------------------------------------------------------ the renderers
NoDoc == [kind |-> "none", message |-> "", placeholder |-> FALSE,
          summary |-> <<>>, grid |-> <<>>, pagination |-> <<>>]

\* what an exception thrown while the template is evaluated leaves behind
TypeError == [NoDoc EXCEPT !.kind = "TypeError"]

ErrorMessage == "fetch-error"

renderError(message) ==
    [NoDoc EXCEPT !.kind = "error", !.message = message]

\* n.toLocaleString() for n >= 0: the groups of three digits, left to right
RECURSIVE ToLocaleString(_)
ToLocaleString(n) ==
    IF n < 1000 THEN <<n>> ELSE Append(ToLocaleString(n \div 1000), n % 1000)

\* a slip of the summary line: the range starts at the offset
SummaryLine_zeroBased(pagination) ==
    [total |-> pagination.totalProducts,
     from  |-> JsMul(JsSub(pagination.currentPage, 1), pagination.limit),
     to    |-> JsMin(JsMul(pagination.currentPage, pagination.limit),
                     Num(pagination.totalProducts))]

\* the text of the summary line: total, first and last shown
SummaryLine(pagination) ==
    [total |-> pagination.totalProducts,
     from  |-> JsAdd(JsMul(JsSub(pagination.currentPage, 1), pagination.limit), 1),
     to    |-> JsMin(JsMul(pagination.currentPage, pagination.limit),
                     Num(pagination.totalProducts))]

\* one product card
ProductCard(product) ==
    [id |-> product.id, price |-> ToLocaleString(product.price[1])]

\* a slip of the window: the last window starts one page early
PageNumAt_earlyTail(i, pagination) ==
    CASE JsLe(pagination.totalPages, Num(5))   -> Num(i + 1)
      [] JsLe(pagination.currentPage, Num(3))  -> Num(i + 1)
      [] JsGe(pagination.currentPage, JsSub(pagination.totalPages, 2))
                                               -> JsAdd(JsSub(pagination.totalPages, 5), i)
      [] OTHER                                 -> JsAdd(JsSub(pagination.currentPage, 2), i)

\* the page number of the i-th page link, i counted from 0
PageNumAt(i, pagination) ==
    CASE JsLe(pagination.totalPages, Num(5))   -> Num(i + 1)
      [] JsLe(pagination.currentPage, Num(3))  -> Num(i + 1)
      [] JsGe(pagination.currentPage, JsSub(pagination.totalPages, 2))
                                               -> JsAdd(JsSub(pagination.totalPages, 4), i)
      [] OTHER                                 -> JsAdd(JsSub(pagination.currentPage, 2), i)

\* the i-th page link: the current page is a plain indicator, the others
\* are links
PageLink(i, pagination) ==
    LET pageNum == PageNumAt(i, pagination)
    IN  [page    |-> pageNum,
         current |-> JsStrictEq(pageNum, pagination.currentPage)]

\* the pagination block: Previous, the page links, Next; prev and next hold
\* the page the control links to, or nothing when it is disabled
PaginationControls(pagination) ==
    LET length == JsMin(Num(5), pagination.totalPages).v
    IN  [prev  |-> IF JsGt(pagination.currentPage, Num(1))
                   THEN <<JsSub(pagination.currentPage, 1)>> ELSE <<>>,
         links |-> [k \in 1..length |-> PageLink(k - 1, pagination)],
         next  |-> IF JsLt(pagination.currentPage, pagination.totalPages)
                   THEN <<JsAdd(pagination.currentPage, 1)>> ELSE <<>>]

\* a slip of the template: the pagination block sits outside the test on
\* products.length
renderProductList_controlsOutside(products, pagination) ==
    LET controls == IF JsGt(pagination.totalPages, Num(1))
                    THEN <<PaginationControls(pagination)>> ELSE <<>>
    IN  IF Len(products) > 0
        THEN IF \E i \in 1..Len(products) : products[i].price = NULL
             THEN TypeError
             ELSE [NoDoc EXCEPT
                     !.kind       = "catalog",
                     !.summary    = <<SummaryLine(pagination)>>,
                     !.grid       = [i \in 1..Len(products) |-> ProductCard(products[i])],
                     !.pagination = controls]
        ELSE [NoDoc EXCEPT !.kind = "catalog", !.placeholder = TRUE,
                           !.pagination = controls]

renderProductList(products, pagination) ==
    IF Len(products) > 0
    THEN IF \E i \in 1..Len(products) : products[i].price = NULL
         THEN TypeError
         ELSE [NoDoc EXCEPT
                 !.kind       = "catalog",
                 !.summary    = <<SummaryLine(pagination)>>,
                 !.grid       = [i \in 1..Len(products) |-> ProductCard(products[i])],
                 !.pagination = IF JsGt(pagination.totalPages, Num(1))
                                THEN <<PaginationControls(pagination)>> ELSE <<>>]
    ELSE [NoDoc EXCEPT !.kind = "catalog", !.placeholder = TRUE]

\* a slip of the catch block: the failure is answered with an empty catalog
CatchBlock_emptyCatalog(error) ==
    [NoDoc EXCEPT !.kind = "catalog", !.placeholder = TRUE]

\* the catch block of the handler
CatchBlock(error) == renderError(ErrorMessage)

\* the body of the try block once both reads have returned
RenderPage(products, pagination) ==
    LET htmlContent == renderProductList(products, pagination)
    IN  IF htmlContent = TypeError THEN CatchBlock("TypeError") ELSE htmlContent

\* -------------------------------------------------------------------- state
VARIABLES
    store,          \* the rows of the products table, in rowid order
    pc,             \* where the handler is: idle, count, fetch, done
    query,          \* c.req.query(): sort, page, limit, each absent or a string
    sort,           \* the handler's locals
    pageNum,
    limitNum,
    offset,
    orderBy,
    totalProducts,
    totalPages,
    products,       \* products.results of the second read
    issued,         \* the statements this request has sent to the database
    fault,          \* the read that failed: none, count, fetch, bind
    response        \* the document handed to c.html

locals == <<query, sort, pageNum, limitNum, offset, orderBy, totalProducts,
            totalPages, products, issued, fault, response>>
vars   == <<store, pc, locals>>

\* the query strings a client sends
SortParams  == {<<>>, <<"price_asc">>, <<"price_desc">>, <<"updated_desc">>, <<"name_asc">>}
PageParams  == {<<>>, << <<"a", "b", "c">> >>} \cup {<<Decimal(n)>> : n \in 0..MaxPage}
LimitParams == {<<>>, << <<"a", "b", "c">> >>} \cup {<<Decimal(n)>> : n \in 0..MaxLimit}
Queries     == [sort : SortParams, page : PageParams, limit : LimitParams]

NoQuery == [sort |-> <<>>, page |-> <<>>, limit |-> <<>>]

Idle ==
    /\ pc = "idle"
    /\ query = NoQuery
    /\ sort = DefaultSort
    /\ pageNum = Num(1)
    /\ limitNum = Num(1)
    /\ offset = Num(0)
    /\ orderBy = "price ASC"
    /\ totalProducts = 0
    /\ totalPages = Num(0)
    /\ products = <<>>
    /\ issued = <<>>
    /\ fault = "none"
    /\ response = NoDoc

Init == store \in Tables /\ Idle

\* the pagination object the handler passes to renderProductList
Pagination ==
    [currentPage |-> pageNum, totalPages |-> totalPages,
     totalProducts |-> totalProducts, sort |-> sort, limit |-> limitNum]

\* a request arrives: the parameters are read and the count is sent
Request(q) ==
    /\ pc = "idle"
    /\ query' = q
    /\ sort' = OrDefault(q.sort, DefaultSort)
    /\ pageNum' = parseInt(OrDefault(q.page, DefaultPage))
    /\ limitNum' = parseInt(OrDefault(q.limit, DefaultLimit))
    /\ offset' = Offset(pageNum', limitNum')
    /\ orderBy' = ResolveOrderBy(sort')
    /\ issued' = StoreCall(issued, "count")
    /\ pc' = "count"
    /\ UNCHANGED <<store, totalProducts, totalPages, products, fault, response>>

\* the count returns: the totals are computed and the slice is sent
CountReturns ==
    /\ pc = "count"
    /\ totalProducts' = TotalProductsOf(CountRow(store))
    /\ totalPages' = TotalPagesOf(totalProducts', limitNum)
    /\ issued' = StoreCall(issued, "fetch")
    /\ pc' = "fetch"
    /\ UNCHANGED <<store, query, sort, pageNum, limitNum, offset, orderBy,
                   products, fault, response>>

\* the count throws
CountFails ==
    /\ pc = "count"
    /\ fault' = "count"
    /\ response' = CatchBlock("StoreError")
    /\ pc' = "done"
    /\ UNCHANGED <<store, query, sort, pageNum, limitNum, offset, orderBy,
                   totalProducts, totalPages, products, issued>>

\* the slice returns and the page is rendered
FetchReturns ==
    /\ pc = "fetch"
    /\ products' = FetchSlice(store, orderBy, limitNum, offset)
    /\ response' = RenderPage(products', Pagination)
    /\ pc' = "done"
    /\ UNCHANGED <<store, query, sort, pageNum, limitNum, offset, orderBy,
                   totalProducts, totalPages, issued, fault>>

\* the database refuses a LIMIT or OFFSET that is not an integer
FetchRejects ==
    /\ pc = "fetch"
    /\ ~(IsNum(limitNum) /\ IsNum(offset))
    /\ fault' = "bind"
    /\ response' = CatchBlock("StoreError")
    /\ pc' = "done"
    /\ UNCHANGED <<store, query, sort, pageNum, limitNum, offset, orderBy,
                   totalProducts, totalPages, products, issued>>

\* the slice throws
FetchFails ==
    /\ pc = "fetch"
    /\ fault' = "fetch"
    /\ response' = CatchBlock("StoreError")
    /\ pc' = "done"
    /\ UNCHANGED <<store, query, sort, pageNum, limitNum, offset, orderBy,
                   totalProducts, totalPages, products, issued>>

\* the response is sent; the request's locals are gone
Respond ==
    /\ pc = "done"
    /\ pc' = "idle"
    /\ query' = NoQuery
    /\ sort' = DefaultSort
    /\ pageNum' = Num(1)
    /\ limitNum' = Num(1)
    /\ offset' = Num(0)
    /\ orderBy' = "price ASC"
    /\ totalProducts' = 0
    /\ totalPages' = Num(0)
    /\ products' = <<>>
    /\ issued' = <<>>
    /\ fault' = "none"
    /\ response' = NoDoc
    /\ UNCHANGED store

Next ==
    \/ \E q \in Queries : Request(q)
    \/ CountReturns
    \/ CountFails
    \/ FetchReturns
    \/ FetchRejects
    \/ FetchFails
    \/ Respond

Spec == Init /\ [][Next]_vars

\* =================================================================== claims
Served == pc = "done" /\ fault = "none"

\* C1: when the count or the slice read fails, the response is the generic
\* error document of renderError: no product grid, no summary line, no
\* pagination controls, no placeholder, and no rows were kept.
C1_StoreFailureRendersError ==
    pc = "done" /\ fault # "none" =>
        /\ response = renderError(ErrorMessage)
        /\ response.kind = "error"
        /\ response.grid = <<>>
        /\ response.summary = <<>>
        /\ response.pagination = <<>>
        /\ ~response.placeholder
        /\ products = <<>>

\* the slice read fails after the count has succeeded on a non-empty table
C1_Witness ==
    pc = "done" /\ fault = "fetch" /\ totalProducts > 0 /\ response.kind = "error"

\* the document the handler serves for query q on table rows when neither
\* read fails
DocFor(rows, q) ==
    LET s     == OrDefault(q.sort, DefaultSort)
        p     == parseInt(OrDefault(q.page, DefaultPage))
        l     == parseInt(OrDefault(q.limit, DefaultLimit))
        total == TotalProductsOf(CountRow(rows))
    IN  RenderPage(FetchSlice(rows, ResolveOrderBy(s), l, Offset(p, l)),
                   [currentPage |-> p, totalPages |-> TotalPagesOf(total, l),
                    totalProducts |-> total, sort |-> s, limit |-> l])

Malformed(param) == param # <<>> /\ parseInt(param[1]) = NaN

\* the query with every malformed page or limit replaced by its default
Defaulted(q) ==
    [q EXCEPT !.page  = IF Malformed(q.page) THEN <<>> ELSE q.page,
              !.limit = IF Malformed(q.limit) THEN <<>> ELSE q.limit]

\* C2: a malformed page or limit is replaced by its default (page 1, limit
\* 20): unless the database is down, the response is the catalog document
\* served for the defaulted query, never the error document.
C2_MalformedParamsDefaulted ==
    /\ pc = "done"
    /\ fault \notin {"count", "fetch"}
    /\ Malformed(query.page) \/ Malformed(query.limit)
    => /\ response.kind = "catalog"
       /\ response = DocFor(store, Defaulted(query))

\* C3: for totalPages >= 2 and 1 <= currentPage <= totalPages the page
\* links are min(5, totalPages) consecutive numbers inside [1, totalPages],
\* starting at 1 when totalPages <= 5 or currentPage <= 3, at totalPages-4
\* when currentPage >= totalPages-2, at currentPage-2 otherwise, and
\* exactly one of them, the current page, is marked current.
C3_PageLinkWindow ==
    /\ pc = "done"
    /\ response.kind = "catalog"
    /\ response.pagination # <<>>
    /\ IsNum(pageNum) /\ IsNum(totalPages)
    /\ 1 <= pageNum.v /\ pageNum.v <= totalPages.v
    => LET links == response.pagination[1].links
           tp    == totalPages.v
           cp    == pageNum.v
           first == CASE tp <= 5      -> 1
                      [] cp <= 3      -> 1
                      [] cp >= tp - 2 -> tp - 4
                      [] OTHER        -> cp - 2
       IN  /\ tp >= 2
           /\ Len(links) = (IF tp <= 5 THEN tp ELSE 5)
           /\ \A k \in 1..Len(links) :
                 /\ links[k].page = Num(first + k - 1)
                 /\ 1 <= links[k].page.v /\ links[k].page.v <= tp
                 /\ links[k].current <=> (links[k].page.v = cp)
           /\ Cardinality({k \in 1..Len(links) : links[k].current}) = 1

\* a page in the middle of more than five pages
C3_Witness ==
    /\ pc = "done"
    /\ response.kind = "catalog"
    /\ response.pagination # <<>>
    /\ IsNum(pageNum) /\ IsNum(totalPages)
    /\ totalPages.v > 5
    /\ 3 < pageNum.v /\ pageNum.v < totalPages.v - 2

\* C4: for page >= 1 and limit > 0 the slice is read at offset
\* (page-1)*limit with LIMIT limit, the page is used as requested (never
\* clamped), a page beyond totalPages has no rows, and totalProducts and
\* totalPages are the ones of the count whatever the page.
C4_OffsetNoClamp ==
    /\ Served
    /\ IsNum(pageNum) /\ pageNum.v >= 1
    /\ IsNum(limitNum) /\ limitNum.v > 0
    => LET sorted == OrderRows(store, orderBy)
           off    == (pageNum.v - 1) * limitNum.v
           rest   == Len(store) - off
           shown  == IF rest <= 0 THEN 0 ELSE IF rest < limitNum.v THEN rest ELSE limitNum.v
       IN  /\ pageNum = parseInt(OrDefault(query.page, DefaultPage))
           /\ offset = Num(off)
           /\ Len(products) = shown
           /\ \A k \in 1..shown : products[k] = sorted[off + k]
           /\ totalProducts = Len(store)
           /\ totalPages = Num((Len(store) + limitNum.v - 1) \div limitNum.v)
           /\ pageNum.v > totalPages.v => products = <<>>

\* a page beyond the last of a non-empty table
C4_Witness ==
    /\ Served
    /\ IsNum(pageNum) /\ IsNum(limitNum) /\ IsNum(totalPages)
    /\ limitNum.v > 0
    /\ totalProducts > 0
    /\ pageNum.v > totalPages.v
    /\ products = <<>>

\* C5: for limit > 0, totalPages is the least integer n with
\* n * limit >= totalProducts, it is 0 exactly when totalProducts is 0, and
\* a missing count row counts as 0 products.
C5_TotalPagesCeil ==
    /\ TotalProductsOf(<<>>) = 0
    /\ pc \in {"fetch", "done"} /\ fault # "count" /\ IsNum(limitNum) /\ limitNum.v > 0
       => /\ totalProducts = Len(store)
          /\ IsNum(totalPages)
          /\ totalPages.v * limitNum.v >= totalProducts
          /\ (totalPages.v - 1) * limitNum.v < totalProducts
          /\ totalPages.v = 0 <=> totalProducts = 0
          /\ Pagination.totalPages = totalPages

\* a count that is not a multiple of the limit
C5_Witness ==
    /\ Served
    /\ IsNum(limitNum) /\ limitNum.v > 1
    /\ IsNum(totalPages) /\ totalPages.v >= 2
    /\ totalProducts % limitNum.v # 0

\* C6: a page holding a product without a price is still rendered as the
\* catalog, with a card for every product of the page.
C6_NullPriceRenders ==
    Served /\ (\E i \in 1..Len(products) : products[i].price = NULL)
    => /\ response.kind = "catalog"
       /\ Len(response.grid) = Len(products)

\* C7: when the slice is empty the document is the no-products
\* placeholder alone: no grid, no summary line, no pagination controls.
C7_EmptyStateNoControls ==
    Served /\ products = <<>>
    => /\ response.kind = "catalog"
       /\ response.placeholder
       /\ response.grid = <<>>
       /\ response.summary = <<>>
       /\ response.pagination = <<>>

\* a page beyond the last of a table of several pages
C7_Witness ==
    /\ Served
    /\ products = <<>>
    /\ totalProducts > 0
    /\ IsNum(totalPages) /\ totalPages.v > 1
    /\ response.placeholder

\* C8 as stated: every request issues exactly two store operations, a count
\* and then a fetch.
C8_ExactlyTwoOps ==
    pc = "done" => issued = <<"count", "fetch">>

\* C8 amended: a request issues the count first and the fetch only once the
\* count has returned; it issues both when the count succeeds and the count
\* alone when the count fails; nothing is issued twice and the table is
\* never written.
C8_CountThenFetch ==
    /\ [](/\ issued \in {<<>>, <<"count">>, <<"count", "fetch">>}
          /\ pc = "count" => issued = <<"count">>
          /\ pc = "fetch" => issued = <<"count", "fetch">>
          /\ pc = "done" /\ fault # "count" => issued = <<"count", "fetch">>
          /\ pc = "done" /\ fault = "count" => issued = <<"count">>)
    /\ [][store' = store]_vars

\* both reads were issued and answered
C8_Witness ==
    Served /\ issued = <<"count", "fetch">> /\ totalProducts > 0 /\ products # <<>>

\* C9: price_desc orders by price descending, updated_desc by updated_at
\* descending, every other token and no token by price ascending: the rows
\* served are in that order and, for an unrecognized token, are the rows
\* price ascending gives for the same limit and offset.
C9_SortResolution ==
    /\ pc # "idle" =>
          /\ sort = "price_desc" => orderBy = "price DESC"
          /\ sort = "updated_desc" => orderBy = "updated_at DESC"
          /\ sort \notin {"price_desc", "updated_desc"} => orderBy = "price ASC"
          /\ query.sort = <<>> => orderBy = "price ASC"
    /\ Served =>
          /\ \A k \in 1..(Len(products) - 1) :
                CASE sort = "price_desc" ->
                        ~NullsFirstLess(products[k].price, products[k + 1].price)
                  [] sort = "updated_desc" ->
                        products[k].updated_at >= products[k + 1].updated_at
                  [] OTHER ->
                        ~NullsFirstLess(products[k + 1].price, products[k].price)
          /\ sort \notin {"price_desc", "updated_desc"} =>
                products = FetchSlice(store, "price ASC", limitNum, offset)

\* an unrecognized token served with rows of different prices
C9_Witness ==
    /\ Served
    /\ sort = "name_asc"
    /\ Len(products) >= 2
    /\ products[1].price # products[2].price
    /\ products[1].id > products[2].id

\* C10: the summary line is shown exactly when rows are shown and reads
\* (currentPage-1)*limit + 1 to min(currentPage*limit, totalProducts) of
\* totalProducts; for page >= 1 and limit > 0 these are the positions of the
\* first and the last row shown.
C10_SummaryRange ==
    pc = "done" /\ response.kind = "catalog" =>
        /\ response.summary # <<>> <=> products # <<>>
        /\ response.summary # <<>> =>
              LET line == response.summary[1]
              IN  /\ line.total = totalProducts
                  /\ IsNum(pageNum) /\ IsNum(limitNum) =>
                        LET hi == pageNum.v * limitNum.v
                        IN  /\ line.from = Num((pageNum.v - 1) * limitNum.v + 1)
                            /\ line.to = Num(IF hi < totalProducts THEN hi ELSE totalProducts)
                  /\ IsNum(pageNum) /\ IsNum(limitNum) /\ pageNum.v >= 1 /\ limitNum.v > 0 =>
                        /\ line.from = Num(offset.v + 1)
                        /\ line.to = Num(offset.v + Len(products))

\* a last page that is not full
C10_Witness ==
    /\ pc = "done" /\ response.kind = "catalog" /\ response.summary # <<>>
    /\ IsNum(pageNum) /\ IsNum(limitNum)
    /\ pageNum.v > 1
    /\ pageNum.v * limitNum.v > totalProducts
    /\ response.summary[1].to = Num(totalProducts)

====
